---- MODULE Spec2Model ----
(***************************************************************************)
(* Telco-Sentinel dashboard (src/app.py): a Streamlit script that is run   *)
(* top to bottom on every page load or widget interaction.  One run loads  *)
(* the metadata table (cached), takes the sidebar selection, filters the   *)
(* battery history, fits a least-squares line, derives SoH and remaining   *)
(* useful life, renders KPIs, trend chart and alert, then the detail tab.  *)
(*                                                                         *)
(* Numbers.  Capacities are integers in tenths of an Ah (2.0 Ah = 20).     *)
(* Derived reals are exact fractions <<numerator, denominator>>, so the    *)
(* model is the script under exact arithmetic.  The IEEE results the       *)
(* script can obtain from a division by a zero slope (+inf, -inf, nan) are *)
(* kept as such; the sign bit of a zero slope is a property of the build   *)
(* (zeroSign), unknown but fixed.                                          *)
(***************************************************************************)
EXTENDS Integers, Sequences, FiniteSets, TLC

VARIABLES
    metadataFile,        \* metadata.csv on disk: [exists, rows]
    zeroSign,            \* sign of a zero slope coefficient: 1 or -1
    cacheState,          \* st.cache_data entry of load_metadata: "empty" | "none" | "data"
    metadata_all,        \* df returned by load_metadata (rows, Capacity numeric)
    health_data,         \* health_df returned by load_metadata
    pc,                  \* position of the running script, "idle" between runs
    selected_id,         \* sidebar selectbox value
    selected_file,       \* tab2 selectbox value
    b_history,           \* rows of health_data of the selected battery
    current_cycle,
    latest_capacity,
    start_capacity,
    soh,                 \* <<num, den>>; den = 0 is the IEEE inf / nan of a zero baseline
    m,                   \* model.coef_[0] as <<num, den>>, den > 0
    c,                   \* model.intercept_ as <<num, den>>, den > 0
    predicted_end_cycle, \* [kind, num, den], kind in "fin" | "inf" | "-inf" | "nan"
    remaining_cycles,
    fileFound,           \* sensor_df is not None
    shown,               \* elements rendered by the current / last run
    exception,           \* uncaught exception that ended the run, or "none"
    firstEst             \* history: per battery, the first estimate and alert rendered
                         \* for it, and whether that run found its detail file

vars == <<metadataFile, zeroSign, cacheState, metadata_all, health_data, pc,
          selected_id, selected_file, b_history, current_cycle, latest_capacity,
          start_capacity, soh, m, c, predicted_end_cycle, remaining_cycles,
          fileFound, shown, exception, firstEst>>

(***************************************************************************)
(* Program constants                                                       *)
(***************************************************************************)
\* EOL_THRESHOLD = 1.4 Ah, in tenths of an Ah
EOL_THRESHOLD == 14
\* the literal of `if remaining_cycles < 15`
ALERT_THRESHOLD == 15

None == "None"

(***************************************************************************)
(* Bounds and input sets                                                   *)
(***************************************************************************)
MaxRows == 3        \* rows of metadata.csv in Spec
MaxHist == 3        \* discharge records of the battery in SpecEst
MaxIngestRows == 3  \* rows of metadata.csv in SpecIngest

Batteries == {"B0005", "B0006"}
\* string order of the battery ids, as sorted() and sort_values see it
BatteryRank == [b \in Batteries |-> IF b = "B0005" THEN 1 ELSE 2]
Types == {"charge", "discharge", "impedance"}
FileNames == <<"00001.csv", "00002.csv", "00003.csv", "00004.csv", "00005.csv", "00006.csv">>

\* a raw Capacity cell: text that parses as a number, or text that does not
Num(v) == [num |-> TRUE, val |-> v]
BadCell == [num |-> FALSE, val |-> 0]

Row(b, t, ty, cell) ==
    [battery_id |-> b, test_id |-> t, type |-> ty, Capacity |-> cell, filename |-> FileNames[t]]

(***************************************************************************)
(* load_metadata                                                           *)
(***************************************************************************)
\* pd.to_numeric(errors='coerce'): unparsable text becomes NaN
to_numeric(cell) == IF cell.num THEN [nan |-> FALSE, val |-> cell.val]
                                ELSE [nan |-> TRUE, val |-> 0]

CoerceCapacity(rows) ==
    [i \in 1..Len(rows) |-> [rows[i] EXCEPT !.Capacity = to_numeric(rows[i].Capacity)]]

IsDischarge(r) == r.type = "discharge"
NotNaN(r) == ~r.Capacity.nan

\* df[df['type'] == 'discharge'].dropna(subset=['Capacity'])
FilterHealth(df) == SelectSeq(SelectSeq(df, IsDischarge), NotNaN)

\* order of sort_values(['battery_id', 'test_id'])
RowLeq(r1, r2) ==
    \/ BatteryRank[r1.battery_id] < BatteryRank[r2.battery_id]
    \/ /\ r1.battery_id = r2.battery_id
       /\ r1.test_id <= r2.test_id

RECURSIVE InsertRow(_, _)
InsertRow(r, s) ==
    IF s = <<>> THEN <<r>>
    ELSE IF RowLeq(Head(s), r) THEN <<Head(s)>> \o InsertRow(r, Tail(s))
    ELSE <<r>> \o s

RECURSIVE SortValues(_)
SortValues(s) ==
    IF s = <<>> THEN <<>>
    ELSE InsertRow(s[Len(s)], SortValues(SubSeq(s, 1, Len(s) - 1)))

\* variant: cumcount() without the groupby, the position in the whole table
CumCountUngrouped(s, i) == i - 1

\* groupby('battery_id').cumcount(): rows of the same battery before row i
CumCount(s, i) == Cardinality({j \in 1..(i - 1) : s[j].battery_id = s[i].battery_id})

AssignCycle(s) ==
    [i \in 1..Len(s) |->
        [battery_id |-> s[i].battery_id, test_id |-> s[i].test_id, type |-> s[i].type,
         Capacity |-> s[i].Capacity.val, filename |-> s[i].filename,
         cycle |-> CumCount(s, i) + 1]]

HealthDf(df) == AssignCycle(SortValues(FilterHealth(df)))

\* variant: the stored value is handed out itself and a run consumes its last row
CacheHitConsumed(entry) ==
    IF entry = <<>> THEN entry ELSE SubSeq(entry, 1, Len(entry) - 1)

\* @st.cache_data: a hit returns a copy of the stored value
CacheHit(entry) == entry

\* variant: the gate is missing and the dashboard body always runs
GateOpen(state) == "sidebar"

\* `if metadata_all is not None`: the dashboard body is skipped without data
Gate(state) == IF state = "none" THEN "footer" ELSE "sidebar"

(***************************************************************************)
(* Data filtering and prediction engine                                    *)
(***************************************************************************)
OfBattery(rows, b) ==
    LET Same(r) == r.battery_id = b
    IN  SelectSeq(rows, Same)

\* sorted(health_data['battery_id'].unique())
BatteryList(hd) == {hd[i].battery_id : i \in 1..Len(hd)}

RECURSIVE SumSeq(_)
SumSeq(s) == IF s = <<>> THEN 0 ELSE Head(s) + SumSeq(Tail(s))

\* the sums the least-squares solution is made of (X = cycle, y = Capacity)
Sx(h)  == SumSeq([i \in 1..Len(h) |-> h[i].cycle])
Sy(h)  == SumSeq([i \in 1..Len(h) |-> h[i].Capacity])
Sxx(h) == SumSeq([i \in 1..Len(h) |-> h[i].cycle * h[i].cycle])
Sxy(h) == SumSeq([i \in 1..Len(h) |-> h[i].cycle * h[i].Capacity])

\* n * (centred sum of squares of the cycles)
VarX(h) == Len(h) * Sxx(h) - Sx(h) * Sx(h)

\* LinearRegression().fit(X, y).coef_[0]; the minimum-norm solution 0 when
\* the centred cycles are all zero
FitSlope(h) ==
    IF VarX(h) = 0 THEN <<0, 1>>
    ELSE <<Len(h) * Sxy(h) - Sx(h) * Sy(h), VarX(h)>>

\* intercept_ = mean(y) - coef_ * mean(X)
FitIntercept(h) ==
    LET k == FitSlope(h)
    IN  <<Sy(h) * k[2] - k[1] * Sx(h), Len(h) * k[2]>>

Sign(x) == IF x > 0 THEN 1 ELSE IF x < 0 THEN -1 ELSE 0

Fin(n, d) == IF d < 0 THEN [kind |-> "fin", num |-> -n, den |-> -d]
                      ELSE [kind |-> "fin", num |-> n, den |-> d]
Inf(k) == [kind |-> k, num |-> 0, den |-> 1]

\* (EOL_THRESHOLD - c) / m on numpy float64: a zero m gives inf, -inf or nan
PredictedEnd(mm, cc, zs) ==
    LET top == EOL_THRESHOLD * cc[2] - cc[1]
    IN  IF mm[1] = 0
        THEN IF top = 0 THEN Inf("nan")
             ELSE IF Sign(top) * zs > 0 THEN Inf("inf") ELSE Inf("-inf")
        ELSE Fin(top * mm[2], cc[2] * mm[1])

\* predicted_end_cycle - current_cycle
MinusCycle(p, cur) ==
    IF p.kind = "fin" THEN Fin(p.num - cur * p.den, p.den) ELSE p

\* variant: the clamp is missing
Max0NoClamp(x) == x

\* Python max(0, x): x only when x > 0 (so nan and -inf give 0)
Max0(x) ==
    IF x.kind = "inf" THEN x
    ELSE IF x.kind = "fin" /\ x.num > 0 THEN x
    ELSE Fin(0, 1)

\* variant: round up instead of truncating
TruncCeil(n, d) == IF n >= 0 THEN (n + d - 1) \div d ELSE -((-n) \div d)

\* int(x) truncates toward zero
Trunc(n, d) == IF n >= 0 THEN n \div d ELSE -((-n) \div d)

\* int(inf) raises OverflowError
IntRaises(x) == x.kind # "fin"
IntOf(x) == Trunc(x.num, x.den)

\* model.predict rejects a non-finite input with ValueError
PredictRaises(p) == p.kind # "fin"

AlertFor(rem) == IF rem < ALERT_THRESHOLD THEN "URGENT" ELSE "HEALTHY"

\* variant: a missing detail file blocks the page with an error
DetailViewBlocking(found, sh) ==
    IF found THEN sh \cup {"sensor_charts"} ELSE {"error"}

\* tab2: the warning replaces the sensor charts when the detail file is missing
DetailView(found, sh) ==
    IF found THEN sh \cup {"sensor_charts"} ELSE sh \cup {"warning"}

(***************************************************************************)
(* Initial states                                                          *)
(***************************************************************************)
NoEst == [set |-> FALSE, soh |-> <<0, 1>>, latest |-> 0, remaining |-> 0,
          m |-> <<0, 1>>, c |-> <<0, 1>>, alert |-> "none", detail |-> "none"]

Missing == [exists |-> FALSE, rows |-> <<>>]
File(rows) == [exists |-> TRUE, rows |-> rows]

\* the cells a row of metadata.csv is drawn from
Cell(bats, types, cells) == [b : bats, ty : types, cell : cells]

Perms(n) == {p \in [1..n -> 1..n] : \A i, j \in 1..n : p[i] = p[j] => i = j}

\* the file is missing, or holds up to maxn rows in test order
FileInOrder(maxn, bats, types, cells) ==
    \/ metadataFile = Missing
    \/ \E n \in 0..maxn : \E f \in [1..n -> Cell(bats, types, cells)] :
          metadataFile = File([i \in 1..n |-> Row(f[i].b, i, f[i].ty, f[i].cell)])

\* the file is missing, or holds up to maxn rows whose test ids are in any order
FileShuffled(maxn, bats, types, cells) ==
    \/ metadataFile = Missing
    \/ \E n \in 0..maxn : \E f \in [1..n -> Cell(bats, types, cells)] : \E p \in Perms(n) :
          metadataFile = File([i \in 1..n |-> Row(f[i].b, p[i], f[i].ty, f[i].cell)])

SpecCells == {BadCell} \cup {Num(v) : v \in {0, 14, 29, 30}}
EstCells == {Num(v) : v \in {12, 14, 16, 17, 18, 20, 28, 29, 30}}
IngestCells == {BadCell, Num(20)}

ScriptStart ==
    /\ selected_id = None
    /\ selected_file = None
    /\ b_history = <<>>
    /\ current_cycle = 0
    /\ latest_capacity = 0
    /\ start_capacity = 0
    /\ soh = <<0, 1>>
    /\ m = <<0, 1>>
    /\ c = <<0, 1>>
    /\ predicted_end_cycle = Fin(0, 1)
    /\ remaining_cycles = 0
    /\ fileFound = FALSE
    /\ shown = {}
    /\ exception = "none"

InitRest(signs) ==
    /\ zeroSign \in signs
    /\ cacheState = "empty"
    /\ metadata_all = <<>>
    /\ health_data = <<>>
    /\ pc = "idle"
    /\ ScriptStart
    /\ firstEst = [b \in Batteries |-> NoEst]

Init ==
    /\ FileInOrder(MaxRows, Batteries, {"discharge"}, SpecCells)
    /\ InitRest({1, -1})

InitEst ==
    /\ FileInOrder(MaxHist, {"B0005"}, {"discharge"}, EstCells)
    /\ InitRest({1, -1})

InitIngest ==
    /\ FileShuffled(MaxIngestRows, Batteries, Types, IngestCells)
    /\ InitRest({1})

(***************************************************************************)
(* The script, section by section                                          *)
(***************************************************************************)
data == <<metadataFile, zeroSign, cacheState, metadata_all, health_data>>
locals == <<b_history, current_cycle, latest_capacity, start_capacity, soh, m, c,
            predicted_end_cycle, remaining_cycles>>

\* an uncaught exception ends the run; Streamlit waits for the next interaction
Raise(e) ==
    /\ exception' = e
    /\ pc' = "idle"

\* a page load or widget interaction starts a fresh run of the script
Rerun ==
    /\ pc = "idle"
    /\ pc' = "load"
    /\ selected_id' = None
    /\ selected_file' = None
    /\ b_history' = <<>>
    /\ current_cycle' = 0
    /\ latest_capacity' = 0
    /\ start_capacity' = 0
    /\ soh' = <<0, 1>>
    /\ m' = <<0, 1>>
    /\ c' = <<0, 1>>
    /\ predicted_end_cycle' = Fin(0, 1)
    /\ remaining_cycles' = 0
    /\ fileFound' = FALSE
    /\ shown' = {}
    /\ exception' = "none"
    /\ UNCHANGED <<data, firstEst>>

\* metadata_all, health_data = load_metadata(), under st.cache_data, and the
\* `if metadata_all is not None` gate
LoadMetadata ==
    /\ pc = "load"
    /\ IF cacheState = "empty"
       THEN IF ~metadataFile.exists
            THEN /\ cacheState' = "none"
                 /\ UNCHANGED <<metadata_all, health_data>>
            ELSE /\ cacheState' = "data"
                 /\ metadata_all' = CoerceCapacity(metadataFile.rows)
                 /\ health_data' = HealthDf(metadata_all')
       ELSE /\ metadata_all' = CacheHit(metadata_all)
            /\ health_data' = CacheHit(health_data)
            /\ UNCHANGED cacheState
    /\ shown' = IF cacheState' = "none" THEN shown \cup {"error"} ELSE shown
    /\ pc' = Gate(cacheState')
    /\ UNCHANGED <<metadataFile, zeroSign, selected_id, selected_file, locals,
                   fileFound, exception, firstEst>>

\* the sidebar selectbox: any listed battery, None when the list is empty
Sidebar ==
    /\ pc = "sidebar"
    /\ IF BatteryList(health_data) = {}
       THEN selected_id' = None
       ELSE selected_id' \in BatteryList(health_data)
    /\ shown' = shown \cup {"sidebar"}
    /\ pc' = "filter"
    /\ UNCHANGED <<data, selected_file, locals, fileFound, exception, firstEst>>

\* DATA FILTERING: .iloc[-1] of an empty history raises IndexError
DataFiltering ==
    /\ pc = "filter"
    /\ b_history' = OfBattery(health_data, selected_id)
    /\ IF b_history' = <<>>
       THEN /\ Raise("IndexError")
            /\ UNCHANGED <<current_cycle, latest_capacity, start_capacity, soh>>
       ELSE /\ current_cycle' = b_history'[Len(b_history')].cycle
            /\ latest_capacity' = b_history'[Len(b_history')].Capacity
            /\ start_capacity' = b_history'[1].Capacity
            /\ soh' = <<latest_capacity' * 100, start_capacity'>>
            /\ pc' = "predict"
            /\ UNCHANGED exception
    /\ UNCHANGED <<data, selected_id, selected_file, m, c, predicted_end_cycle,
                   remaining_cycles, fileFound, shown, firstEst>>

\* PREDICTION ENGINE: fit, solve for the end-of-life cycle, clamp, truncate
PredictionEngine ==
    /\ pc = "predict"
    /\ m' = FitSlope(b_history)
    /\ c' = FitIntercept(b_history)
    /\ predicted_end_cycle' = PredictedEnd(m', c', zeroSign)
    /\ LET clamped == Max0(MinusCycle(predicted_end_cycle', current_cycle))
       IN  IF IntRaises(clamped)
           THEN /\ Raise("OverflowError")
                /\ UNCHANGED remaining_cycles
           ELSE /\ remaining_cycles' = IntOf(clamped)
                /\ pc' = "kpi"
                /\ UNCHANGED exception
    /\ UNCHANGED <<data, selected_id, selected_file, b_history, current_cycle,
                   latest_capacity, start_capacity, soh, fileFound, shown, firstEst>>

\* title and KPI row
KpiRow ==
    /\ pc = "kpi"
    /\ shown' = shown \cup {"kpi"}
    /\ firstEst' = IF firstEst[selected_id].set THEN firstEst
                   ELSE [firstEst EXCEPT ![selected_id] =
                            [set |-> TRUE, soh |-> soh, latest |-> latest_capacity,
                             remaining |-> remaining_cycles, m |-> m, c |-> c,
                             alert |-> "none", detail |-> "none"]]
    /\ pc' = "chart"
    /\ UNCHANGED <<data, selected_id, selected_file, locals, fileFound, exception>>

\* tab1: observed capacity, forecast line through model.predict, threshold line
TrendChart ==
    /\ pc = "chart"
    /\ IF PredictRaises(predicted_end_cycle)
       THEN /\ Raise("ValueError")
            /\ UNCHANGED shown
       ELSE /\ shown' = shown \cup {"chart"}
            /\ pc' = "alert"
            /\ UNCHANGED exception
    /\ UNCHANGED <<data, selected_id, selected_file, locals, fileFound, firstEst>>

\* tab1: Alerts
Alerts ==
    /\ pc = "alert"
    /\ shown' = shown \cup {AlertFor(remaining_cycles)}
    /\ firstEst' = IF firstEst[selected_id].alert # "none" THEN firstEst
                   ELSE [firstEst EXCEPT ![selected_id].alert = AlertFor(remaining_cycles)]
    /\ pc' = "tab2"
    /\ UNCHANGED <<data, selected_id, selected_file, locals, fileFound, exception>>

\* tab2: log-file selectbox, load_detailed_csv, sensor charts or warning
DeepDive ==
    /\ pc = "tab2"
    /\ LET site_files == OfBattery(metadata_all, selected_id)
       IN  IF site_files = <<>>
           THEN /\ Raise("TypeError")
                /\ UNCHANGED <<selected_file, fileFound, shown, firstEst>>
           ELSE /\ \E i \in 1..Len(site_files) : selected_file' = site_files[i].filename
                /\ fileFound' \in BOOLEAN
                /\ shown' = DetailView(fileFound', shown)
                /\ firstEst' = IF firstEst[selected_id].detail # "none" THEN firstEst
                               ELSE [firstEst EXCEPT ![selected_id].detail =
                                        IF fileFound' THEN "found" ELSE "missing"]
                /\ pc' = "footer"
                /\ UNCHANGED exception
    /\ UNCHANGED <<data, selected_id, locals>>

\* FOOTER
Footer ==
    /\ pc = "footer"
    /\ shown' = shown \cup {"footer"}
    /\ pc' = "idle"
    /\ UNCHANGED <<data, selected_id, selected_file, locals, fileFound, exception, firstEst>>

Next ==
    \/ Rerun
    \/ LoadMetadata
    \/ Sidebar
    \/ DataFiltering
    \/ PredictionEngine
    \/ KpiRow
    \/ TrendChart
    \/ Alerts
    \/ DeepDive
    \/ Footer

\* the load stage alone, for the ingestion properties
NextIngest ==
    \/ Rerun
    \/ LoadMetadata

Spec == Init /\ [][Next]_vars
SpecEst == InitEst /\ [][Next]_vars
SpecIngest == InitIngest /\ [][NextIngest]_vars

(***************************************************************************)
(* Properties                                                              *)
(***************************************************************************)
\* the line has been fitted in this run (m, c, predicted_end_cycle are set)
Fitted == b_history # <<>> /\ pc # "predict"
\* remaining_cycles has been computed in this run
Estimated == Fitted /\ exception # "OverflowError"
AlertsShown == shown \cap {"URGENT", "HEALTHY"}
Capacities(h) == [i \in 1..Len(h) |-> h[i].Capacity]
CurrentEst == <<soh, latest_capacity, remaining_cycles, m, c>>
EstOf(e) == <<e.soh, e.latest, e.remaining, e.m, e.c>>

\* residual of record i against the line m*x + c, scaled by both denominators
Residual(i) ==
    b_history[i].Capacity * m[2] * c[2] - m[1] * b_history[i].cycle * c[2] - c[1] * m[2]

\* the normal equations of ordinary least squares
LeastSquares ==
    /\ SumSeq([i \in 1..Len(b_history) |-> Residual(i)]) = 0
    /\ SumSeq([i \in 1..Len(b_history) |-> b_history[i].cycle * Residual(i)]) = 0

\* (EOL_THRESHOLD - c)/m - current_cycle as the fraction RulNum / RulDen
RulNum == (EOL_THRESHOLD * c[2] - c[1]) * m[2] - current_cycle * c[2] * m[1]
RulDen == c[2] * m[1]

Scenario == Capacities(b_history) = <<20, 18, 16>>

\* C1: with a negative fitted slope, m and c are the least-squares line of the
\* whole history, current_cycle is the last record's cycle, and
\* remaining_cycles is max(0, (EOL_THRESHOLD - c)/m - current_cycle) truncated
\* toward zero; the history 2.0, 1.8, 1.6 Ah gives slope -0.2, intercept 2.2,
\* predicted end cycle 4, remaining_cycles 1 and the URGENT alert.
C1_RulFormula ==
    /\ (Estimated /\ m[1] < 0) =>
          /\ LeastSquares
          /\ current_cycle = b_history[Len(b_history)].cycle
          /\ IF RulNum >= 0
             THEN remaining_cycles = 0
             ELSE /\ remaining_cycles >= 0
                  /\ remaining_cycles * RulDen >= RulNum
                  /\ (remaining_cycles + 1) * RulDen < RulNum
    /\ (Estimated /\ Scenario) =>
          /\ m[1] = -2 * m[2]
          /\ c[1] = 22 * c[2]
          /\ predicted_end_cycle.kind = "fin"
          /\ predicted_end_cycle.num = 4 * predicted_end_cycle.den
          /\ remaining_cycles = 1
          /\ exception = "none"
          /\ pc \in {"tab2", "footer", "idle"} => AlertsShown = {"URGENT"}

C1_Witness ==
    /\ Scenario
    /\ pc = "idle"
    /\ remaining_cycles = 1
    /\ "URGENT" \in shown

StrictlyDecreasing(h) == \A i \in 1..(Len(h) - 1) : h[i].Capacity > h[i + 1].Capacity

\* C2: a history of at least 2 records with strictly decreasing capacity never
\* fails, and its remaining_cycles is a finite non-negative integer.
C2_FiniteNonNegative ==
    (Len(b_history) >= 2 /\ StrictlyDecreasing(b_history)) =>
        /\ exception = "none"
        /\ remaining_cycles \in Nat
        /\ Fitted => (m[1] < 0 /\ predicted_end_cycle.kind = "fin")
        /\ pc = "idle" => {"kpi", "chart", "footer"} \subseteq shown

\* the clamp is what keeps the count non-negative: the fitted line is already
\* below the threshold at the current cycle
C2_Witness ==
    /\ Len(b_history) >= 2
    /\ StrictlyDecreasing(b_history)
    /\ "kpi" \in shown
    /\ predicted_end_cycle.num < current_cycle * predicted_end_cycle.den
    /\ remaining_cycles = 0

\* C3: with a zero or positive fitted slope the run does not raise, reports no
\* finite cycle count and does not classify the battery URGENT.
C3_NonNegativeSlopeUnbounded ==
    (Fitted /\ m[1] >= 0) =>
        /\ exception = "none"
        /\ "kpi" \notin shown
        /\ "URGENT" \notin shown

\* C4: every selection ends with exactly one alert, HEALTHY when
\* remaining_cycles >= 15 and URGENT when remaining_cycles < 15.
C4_ExactlyOneAlert ==
    (pc = "idle" /\ b_history # <<>>) =>
        /\ remaining_cycles >= 15 => AlertsShown = {"HEALTHY"}
        /\ remaining_cycles < 15 => AlertsShown = {"URGENT"}

\* C4, the part the script does implement: an alert that is shown is the
\* threshold on this run's remaining_cycles, the boundary being 15
C4_ShownAlertIsThreshold ==
    AlertsShown # {} =>
        /\ Cardinality(AlertsShown) = 1
        /\ "HEALTHY" \in shown <=> remaining_cycles >= 15
        /\ "URGENT" \in shown <=> remaining_cycles <= 14

\* rows of metadata.csv that are discharge rows with a numeric Capacity
Kept == {i \in 1..Len(metadataFile.rows) :
            /\ metadataFile.rows[i].type = "discharge"
            /\ metadataFile.rows[i].Capacity.num}
RowsOf(b) == {i \in 1..Len(health_data) : health_data[i].battery_id = b}

\* C5: the health table holds exactly the discharge rows with a valid
\* Capacity, and per battery the cycles, in ascending test_id order, are
\* 1, 2, ..., N.
C5_HealthTable ==
    cacheState = "data" =>
        /\ Len(health_data) = Cardinality(Kept)
        /\ {<<health_data[i].battery_id, health_data[i].test_id, health_data[i].Capacity>> :
                i \in 1..Len(health_data)}
           = {<<metadataFile.rows[i].battery_id, metadataFile.rows[i].test_id,
                metadataFile.rows[i].Capacity.val>> : i \in Kept}
        /\ \A b \in Batteries :
              /\ {health_data[i].cycle : i \in RowsOf(b)} = 1..Cardinality(RowsOf(b))
              /\ \A i, j \in RowsOf(b) :
                    health_data[i].test_id < health_data[j].test_id
                        => health_data[i].cycle < health_data[j].cycle

\* a table with a dropped row and two kept rows of the second battery that
\* stand in the file in descending test order
C5_Witness ==
    /\ cacheState = "data"
    /\ Len(health_data) < Len(metadataFile.rows)
    /\ Cardinality(RowsOf("B0006")) = 2
    /\ \E i, j \in Kept :
          /\ i < j
          /\ metadataFile.rows[i].battery_id = "B0006"
          /\ metadataFile.rows[j].battery_id = "B0006"
          /\ metadataFile.rows[i].test_id > metadataFile.rows[j].test_id

\* C6: a selection whose history is empty, or whose baseline capacity is 0,
\* ends without an unhandled exception and without KPI values.
C6_EstimationErrorConfined ==
    (pc = "idle" /\ cacheState = "data" /\ (b_history = <<>> \/ start_capacity = 0)) =>
        /\ exception = "none"
        /\ "kpi" \notin shown

\* C7: without metadata.csv the blocking error is shown and nothing of the
\* dashboard body is selected, computed or rendered.
C7_MissingMetadataBlocks ==
    ~metadataFile.exists =>
        /\ pc \in {"idle", "load", "footer"}
        /\ cacheState \in {"empty", "none"}
        /\ pc = "footer" => cacheState = "none"
        /\ (cacheState = "none" /\ pc # "load") => "error" \in shown
        /\ shown \subseteq {"error", "footer"}
        /\ selected_id = None /\ selected_file = None
        /\ b_history = <<>>
        /\ CurrentEst = <<<<0, 1>>, 0, 0, <<0, 1>>, <<0, 1>>>>
        /\ exception = "none"
        /\ \A b \in Batteries : firstEst[b] = NoEst

C7_Witness ==
    /\ ~metadataFile.exists
    /\ pc = "idle"
    /\ shown = {"error", "footer"}

\* C8: when the selected log's detail file is missing, only a warning is
\* shown in the detail view and no sensor chart; KPI row, trend chart and
\* alert are rendered, with the values of the run that found the file.
C8_MissingDetailDegradesOnly ==
    (selected_file # None /\ ~fileFound) =>
        /\ "warning" \in shown
        /\ "sensor_charts" \notin shown
        /\ "error" \notin shown
        /\ exception = "none"
        /\ {"kpi", "chart"} \subseteq shown
        /\ Cardinality(AlertsShown) = 1
        /\ firstEst[selected_id].detail = "found" =>
              /\ CurrentEst = EstOf(firstEst[selected_id])
              /\ AlertsShown = {firstEst[selected_id].alert}

C8_Witness ==
    /\ selected_file # None
    /\ ~fileFound
    /\ pc = "idle"
    /\ firstEst[selected_id].detail = "found"

\* C9: a history of one record has SoH exactly 100% and ends either in a
\* controlled error or with RUL unbounded: no exception escapes and no
\* finite cycle count is reported.
C9_SingleRecord ==
    (Len(b_history) = 1 /\ pc = "idle") =>
        /\ soh[2] # 0
        /\ soh[1] = 100 * soh[2]
        /\ exception = "none"
        /\ "kpi" \notin shown

\* what is rendered for the selected battery is what was first rendered for it
SameAsFirst ==
    /\ "kpi" \in shown => CurrentEst = EstOf(firstEst[selected_id])
    /\ AlertsShown # {} => AlertsShown = {firstEst[selected_id].alert}

\* C10: once the dataset is loaded no step modifies it, and whatever was
\* selected in between, a battery's estimate and alert equal the first ones
\* computed for it.
C10_Idempotent ==
    /\ []SameAsFirst
    /\ [][cacheState = "data" =>
            /\ cacheState' = "data"
            /\ metadata_all' = metadata_all
            /\ health_data' = health_data]_vars

\* the first battery is rendered again after its own first run completed and
\* after the other battery was rendered
C10_Witness ==
    /\ selected_id = "B0005"
    /\ pc = "tab2"
    /\ firstEst["B0005"].detail # "none"
    /\ firstEst["B0006"].set

====
